---------------------------- MODULE Spec2Model ----------------------------
(***************************************************************************)
(* A model of src/shopify_qa.py: the SeatCoverQA funnel test.              *)
(*                                                                         *)
(* One session is one call of test_url(url, device).  The session is a     *)
(* sequential program; pc is its position.  Every awaited page operation   *)
(* is an environment step that either returns or raises, and every         *)
(* locator candidate is absent, hidden, disabled or usable; what the code  *)
(* does with each outcome (swallow, continue with the next candidate,      *)
(* session handler, propagate) is taken from its try/except structure.     *)
(*                                                                         *)
(* Spec    : one test_url call on a fresh SeatCoverQA, every operation     *)
(*           free to fail.                                                 *)
(* SpecRun : run_tests over a list of raw URLs; each session runs against  *)
(*           one of a few fixed page profiles.                             *)
(***************************************************************************)
EXTENDS Integers, Sequences, FiniteSets, TLC

(* Bound: locator candidates per stage (the lists of the source hold 5 to  *)
(* 12; every loop over them is uniform in the list length).                *)
MaxCandidates == 2

(* Bound: candidate turns per session in which the forced click or the     *)
(* settle-wait after it raises.  Every other operation may raise without   *)
(* limit.                                                                  *)
MaxClickFailures == 1

(* Program constants. *)
NumCloseSelectors == 8
max_sections == 15
SectionOverlap == 150
DesktopViewportHeight == 1080
MobileViewportHeight == 812

Devices == {"desktop", "mobile"}
Severities == {"critical", "high", "medium", "low"}
StageNames == {"seat", "continue", "color", "add_to_cart", "checkout"}

(* What a locator lookup can find on the page. *)
CandidateStates == {"absent", "hidden", "disabled", "usable"}

(* Page profiles.  "free" lets every operation fail and every candidate be *)
(* in any state; the others are fixed pages used by SpecRun.               *)
RunProfiles == {"clean", "bare", "wrongurl", "navfail", "openfail"}

(* document.body.scrollHeight values a page may report. *)
PageHeights == {0, 900}

(* Heights for the section capture on its own: an empty page, pages of one *)
(* and of many sections; windows whose step (height - 150) is negative,    *)
(* zero, one pixel and most of a screen.                                   *)
SectionPageHeights == {0, 1, 900, 20000}
SectionViewportHeights == {100, 150, 151, 812}

(* (broken, total) image counts a page may report. *)
ImageCounts == {<<0, 10>>, <<3, 10>>}

(* The value of a select that still shows its placeholder option. *)
Placeholder == 0

VARIABLES
  pc,                 \* position of the session in test_url
  url, device,        \* arguments of the running test_url call
  profile,            \* page profile of the running session
  browser,            \* "none" | "open" | "closed" | "stopped"
  caught,             \* site whose exception reached the session handler
  escaped,            \* site whose exception left test_url
  ret,                \* where the running dismiss_overlays call returns to
  ov_swallowed,       \* the running dismiss_overlays call swallowed a failure
  response_status,    \* response.status of the navigation, 0 before it
  page_errors,        \* console errors and failed requests the page had in the session
  current_url,        \* page.url read after the checkout click, <<>> before
  vehicle,            \* values of the page's Trim and Cab selects
  click_failures,     \* turns of the session whose click or settle-wait raised
  clicked_since_dismiss, \* stages that clicked since the last dismiss_overlays call
  screenshot_counter, \* self.screenshot_counter
  shots,              \* numeric prefixes handed out by take_screenshot
  issues,             \* self.issues
  stage,              \* stage whose candidate loop is running
  ci,                 \* index of the candidate being tried
  cand,               \* page state of the candidate that passed the lookup
  clicked,            \* candidates clicked in the running stage, in order
  click_raised,       \* first candidate of the running stage whose click raised, or 0
  first_usable,       \* first candidate of the stage seen visible and enabled
  locked,             \* the stage met a candidate that is visible but not enabled
  found,              \* seat_clicked / continued / color_selected / cart_added / checkout_found
  used,               \* index of the selector the stage reports as used, 0 for None
  attempts,           \* how often the session entered each stage's candidate loop
  scroll_pos, section_num, page_height, viewport_height, \* locals of capture_page_sections
  rpc,                \* position of run_tests
  urls,               \* argument of run_tests
  cleaned_urls,       \* run_tests' cleaned_urls
  ui,                 \* index into cleaned_urls
  report,             \* what was written to qa-report.json, "none" before
  sessions            \* (url, device) of every test_url call of the run

argVars == <<url, device, profile>>
controlVars == <<pc, caught, escaped, ret, ov_swallowed>>
pageVars == <<response_status, page_errors, current_url, vehicle>>
shotVars == <<screenshot_counter, shots>>
stageVars == <<stage, ci, cand, clicked, click_raised, first_usable, locked, found, used,
               attempts>>
sectionVars == <<scroll_pos, section_num, page_height, viewport_height>>
runVars == <<rpc, urls, cleaned_urls, ui, report, sessions>>
vars == <<argVars, controlVars, browser, pageVars, click_failures, clicked_since_dismiss,
          shotVars, issues,
          stageVars, sectionVars, runVars>>

----------------------------------------------------------------------------
(* The environment. *)

(* Whether the page operation at `site` may raise under the profile. *)
Fails(site) ==
  CASE profile = "free" -> BOOLEAN
    [] profile = "navfail" -> {site = "goto"}
    [] profile = "openfail" -> {site = "new_context"}
    [] profile = "sections" ->
         IF site \in {"heights", "scroll_section"} THEN BOOLEAN ELSE {FALSE}
    [] OTHER -> {FALSE}

(* The states a looked-up candidate may be in. *)
CandidateOutcomes ==
  CASE profile = "free" -> CandidateStates
    [] profile = "bare" -> {"absent"}
    [] OTHER -> {"usable"}

(* The (broken, total) counts check_images may read. *)
ImageOutcomes ==
  CASE profile = "free" -> ImageCounts
    [] profile = "bare" -> {<<3, 10>>}
    [] OTHER -> {<<0, 10>>}

PageHeightOutcomes ==
  CASE profile = "free" -> PageHeights
    [] profile = "sections" -> SectionPageHeights
    [] OTHER -> {900}

(* response.status values of the top-level navigation. *)
StatusOutcomes ==
  CASE profile = "free" -> {200, 404}
    [] OTHER -> {200}

(* How many console error messages and failed requests a page produces     *)
(* while the session drives it.  No statement of the program reads them,   *)
(* so only the bare page of SpecRun is given any.                          *)
PageErrorOutcomes ==
  CASE profile = "bare" -> {2}
    [] OTHER -> {0}

(* How many of the close selectors of one dismiss_overlays call raise. *)
OverlayFailureCounts ==
  CASE profile = "free" -> 0 .. NumCloseSelectors
    [] OTHER -> {0}

(* How the part of a loop turn after the lookup may end: the scroll (or    *)
(* the highlight script) raises, the click raises, the settle-wait after   *)
(* the click raises, or all of it succeeds.                                *)
ClickOutcomes ==
  CASE profile = "free" /\ click_failures < MaxClickFailures ->
         {"prepare_failed", "click_failed", "wait_failed", "ok"}
    [] profile = "free" -> {"prepare_failed", "ok"}
    [] OTHER -> {"ok"}

(* How many of the three screenshots of capture_checkout_sections are      *)
(* taken before one of its page operations raises.                         *)
CheckoutCaptureOutcomes ==
  CASE profile = "free" -> 0 .. 3
    [] OTHER -> {3}

(* URLs, as sequences of characters. *)
UrlCheckout == <<"/", "c", "h", "e", "c", "k", "o", "u", "t", "s">>
UrlCart == <<"/", "C", "A", "R", "T">>
UrlProduct == <<"/", "p", "r", "o", "d", "u", "c", "t", "s">>
UrlCar == <<"/", "c", "a", "r", "-", "t", "o", "p">>
ResultUrls == {UrlCheckout, UrlCart, UrlProduct, UrlCar}

(* page.url after the checkout click. *)
UrlOutcomes ==
  CASE profile = "free" -> ResultUrls
    [] profile = "wrongurl" -> {UrlProduct}
    [] OTHER -> {UrlCheckout}

----------------------------------------------------------------------------
(* take_screenshot and log_issue. *)

(* A counter that starts over after three screenshots. *)
NextCounterWrapping(c) == (c % 3) + 1

(* self.screenshot_counter += 1 *)
NextCounter(c) == c + 1

RECURSIVE CounterAfter(_, _)
CounterAfter(c, k) == IF k = 0 THEN c ELSE CounterAfter(NextCounter(c), k - 1)

RECURSIVE ShotNumbers(_, _)
ShotNumbers(c, k) ==
  IF k = 0 THEN <<>> ELSE <<NextCounter(c)>> \o ShotNumbers(NextCounter(c), k - 1)

(* k take_screenshot calls in a row.  The counter moves before the capture *)
(* and the capture's failure is swallowed, so a call always counts.        *)
take_screenshot(k) ==
  /\ screenshot_counter' = CounterAfter(screenshot_counter, k)
  /\ shots' = shots \o ShotNumbers(screenshot_counter, k)

RECURSIVE Digits(_)
Digits(n) == IF n < 10 THEN <<n>> ELSE Digits(n \div 10) \o <<n % 10>>

RECURSIVE ZeroPad(_, _)
ZeroPad(d, w) == IF Len(d) >= w THEN d ELSE ZeroPad(<<0>> \o d, w)

(* f"{n:04d}" as its sequence of decimal digits *)
Fmt04(n) == ZeroPad(Digits(n), 4)

(* An issue dict that names the desktop device whatever session builds it. *)
IssueOnDesktop(severity, category, text, counter) ==
  [url |-> url, device |-> "desktop", severity |-> severity, category |-> category,
   issue |-> text, screenshot |-> Fmt04(counter), timestamp |-> "now"]

(* An issue dict without its timestamp. *)
IssueWithoutTimestamp(severity, category, text, counter) ==
  [url |-> url, device |-> device, severity |-> severity, category |-> category,
   issue |-> text, screenshot |-> Fmt04(counter)]

(* The dict a log_issue call site builds; counter is self.screenshot_counter *)
(* when the dict is built.                                                 *)
Issue(severity, category, text, counter) ==
  [url |-> url, device |-> device, severity |-> severity, category |-> category,
   issue |-> text, screenshot |-> Fmt04(counter), timestamp |-> "now"]

BrokenImagesIssue(broken, total, counter) ==
  Issue("high", "Broken Images", <<"images failed to load", broken, total>>, counter)

(* A seat issue whose reference was read before the error screenshot. *)
SeatIssueBeforeShot(counter) ==
  Issue("critical", "Seat Selection Failed",
        <<"Could not click Front & Rear Seats option">>, counter - 1)

SeatIssue(counter) ==
  Issue("critical", "Seat Selection Failed",
        <<"Could not click Front & Rear Seats option">>, counter)

StepProgressionIssue(counter) ==
  Issue("high", "Step Progression",
        <<"Could not click Select Color Options; Step 3 may not appear">>, counter)

(* An add-to-cart failure logged as high. *)
AddToCartIssueHigh(counter) ==
  Issue("high", "Add to Cart Failed",
        <<"Could not find or click Add to Cart button">>, counter)

AddToCartIssue(counter) ==
  Issue("critical", "Add to Cart Failed",
        <<"Could not find or click Add to Cart button">>, counter)

CheckoutNavigationIssue(at_url, counter) ==
  Issue("medium", "Checkout Navigation", <<"Clicked checkout but URL is", at_url>>,
        counter)

CheckoutNotFoundIssue(counter) ==
  Issue("critical", "Checkout Not Found", <<"Could not find checkout button in cart">>,
        counter)

CrashIssue(site, counter) ==
  Issue("critical", "Test Crashed", <<"Test failed with exception", site>>, counter)

(* An append that keeps one issue per category. *)
AppendedOncePerCategory(list, issue) ==
  IF \E i \in DOMAIN list : list[i].category = issue.category
  THEN list
  ELSE Append(list, issue)

(* self.issues.append(issue) *)
Appended(list, issue) == Append(list, issue)

log_issue(issue) == issues' = Appended(issues, issue)

----------------------------------------------------------------------------
(* Where control goes. *)

Goto(label) ==
  /\ pc' = label
  /\ UNCHANGED <<caught, escaped, ret, ov_swallowed>>

(* An exception raised inside the try of test_url: the except handler. *)
Crash(site) ==
  /\ pc' = "crashed"
  /\ caught' = site
  /\ UNCHANGED <<escaped, ret, ov_swallowed>>

(* An exception raised outside the try: it leaves test_url through the     *)
(* async with block.                                                       *)
Escape(site) ==
  /\ pc' = "exit_scope"
  /\ escaped' = site
  /\ UNCHANGED <<caught, ret, ov_swallowed>>

(* A caller that goes on without calling dismiss_overlays. *)
SkipDismiss(label) ==
  /\ pc' = label
  /\ UNCHANGED <<caught, escaped, ret, ov_swallowed>>

(* A call of dismiss_overlays that returns to `label`. *)
CallDismiss(label) ==
  /\ pc' = "dismiss_overlays"
  /\ ret' = label
  /\ ov_swallowed' = FALSE
  /\ UNCHANGED <<caught, escaped>>

----------------------------------------------------------------------------
(* test_url: opening the browser (before the try). *)

(* p.chromium.launch(...) *)
Launch ==
  /\ pc = "launch"
  /\ \E fails \in Fails("launch") :
       IF fails
       THEN Escape("launch") /\ UNCHANGED browser
       ELSE Goto("new_context") /\ browser' = "open"
  /\ UNCHANGED <<argVars, pageVars, click_failures, clicked_since_dismiss, shotVars, issues, stageVars,
                 sectionVars, runVars>>

(* browser.new_context(...) for the device *)
NewContext ==
  /\ pc = "new_context"
  /\ \E fails \in Fails("new_context") :
       IF fails THEN Escape("new_context") ELSE Goto("new_page")
  /\ UNCHANGED <<argVars, browser, pageVars, click_failures, clicked_since_dismiss, shotVars, issues,
                 stageVars, sectionVars, runVars>>

(* context.new_page() *)
NewPage ==
  /\ pc = "new_page"
  /\ \E fails \in Fails("new_page") :
       IF fails THEN Escape("new_page") ELSE Goto("goto")
  /\ UNCHANGED <<argVars, browser, pageVars, click_failures, clicked_since_dismiss, shotVars, issues,
                 stageVars, sectionVars, runVars>>

----------------------------------------------------------------------------
(* dismiss_overlays *)

(* A dismiss_overlays without its except clauses. *)
DismissRaisesOnFailure(failed) == failed

(* `except: pass` around every close selector and around the chat-widget   *)
(* script: whether a failure inside dismiss_overlays leaves it.            *)
DismissRaises(failed) == FALSE

(* The body of dismiss_overlays: the loop over close_selectors, of which   *)
(* `failures` turns raise (in the query, is_visible, the click or the      *)
(* wait), and the chat-widget hiding script.                               *)
dismiss_overlays ==
  /\ pc = "dismiss_overlays"
  /\ \E failures \in OverlayFailureCounts, hide_fails \in Fails("hide_chat") :
       LET failed == failures > 0 \/ hide_fails IN
       IF DismissRaises(failed)
       THEN Crash("dismiss_overlays")
       ELSE /\ pc' = "dismiss_return"
            /\ ov_swallowed' = failed
            /\ UNCHANGED <<caught, escaped, ret>>
  /\ clicked_since_dismiss' = {}
  /\ UNCHANGED <<argVars, browser, pageVars, click_failures, shotVars, issues,
                 stageVars, sectionVars, runVars>>

(* dismiss_overlays returns to its caller *)
DismissReturn ==
  /\ pc = "dismiss_return"
  /\ pc' = ret
  /\ ret' = "none"
  /\ ov_swallowed' = FALSE
  /\ UNCHANGED <<caught, escaped>>
  /\ UNCHANGED <<argVars, browser, pageVars, click_failures, clicked_since_dismiss, shotVars, issues,
                 stageVars, sectionVars, runVars>>

----------------------------------------------------------------------------
(* test_url: STEP 1 to STEP 3. *)

(* page.goto, the wait for network idle (its failure swallowed), the print *)
(* of response.status, the 5 s wait and the first dismiss_overlays call.   *)
LoadPage ==
  /\ pc = "goto"
  /\ \E fails \in Fails("goto"), status \in StatusOutcomes, errors \in PageErrorOutcomes :
       IF fails
       THEN Crash("goto") /\ UNCHANGED <<response_status, page_errors>>
       ELSE /\ CallDismiss("initial_shot")
            /\ response_status' = status
            /\ page_errors' = errors
  /\ UNCHANGED <<argVars, browser, current_url, vehicle, click_failures, clicked_since_dismiss, shotVars, issues,
                 stageVars, sectionVars, runVars>>

(* take_screenshot '01_initial_page_load' *)
InitialShot ==
  /\ pc = "initial_shot"
  /\ take_screenshot(1)
  /\ Goto("sections")
  /\ UNCHANGED <<argVars, browser, pageVars, click_failures, clicked_since_dismiss, issues, stageVars,
                 sectionVars, runVars>>

(* window.innerHeight of the context the device opened *)
ViewportOf(d) == IF d = "mobile" THEN MobileViewportHeight ELSE DesktopViewportHeight

(* window.innerHeight as the page reports it *)
ViewportOutcomes ==
  CASE profile = "sections" -> SectionViewportHeights
    [] OTHER -> {ViewportOf(device)}

(* A loop that stops at the end of the page only. *)
GoesOnToPageEnd(pos, height, num) == pos < height

(* while scroll_pos < page_height and section_num <= max_sections *)
SectionLoopGoesOn(pos, height, num) == pos < height /\ num <= max_sections

(* capture_page_sections: reading the two heights; a failure ends the call *)
SectionsStart ==
  /\ pc = "sections"
  /\ \E fails \in Fails("heights"), h \in PageHeightOutcomes, v \in ViewportOutcomes :
       IF fails
       THEN Goto("check_images") /\ UNCHANGED sectionVars
       ELSE /\ Goto("section_loop")
            /\ page_height' = h
            /\ viewport_height' = v
            /\ scroll_pos' = 0
            /\ section_num' = 1
  /\ UNCHANGED <<argVars, browser, pageVars, click_failures, clicked_since_dismiss, shotVars, issues,
                 stageVars, runVars>>

(* capture_page_sections: one turn of the while loop, or, when its         *)
(* condition is false, the scroll back to top and the return.  A failing   *)
(* scroll or wait ends the call through its except.                        *)
SectionLoop ==
  /\ pc = "section_loop"
  /\ \E fails \in Fails("scroll_section") :
       IF SectionLoopGoesOn(scroll_pos, page_height, section_num) /\ ~fails
       THEN /\ take_screenshot(1)
            /\ scroll_pos' = scroll_pos + (viewport_height - SectionOverlap)
            /\ section_num' = section_num + 1
            /\ Goto("section_loop")
            /\ UNCHANGED <<page_height, viewport_height>>
       ELSE /\ Goto("check_images")
            /\ scroll_pos' = 0
            /\ section_num' = 0
            /\ page_height' = 0
            /\ viewport_height' = 0
            /\ UNCHANGED shotVars
  /\ UNCHANGED <<argVars, browser, pageVars, click_failures, clicked_since_dismiss, issues, stageVars, runVars>>

(* A probe that logs one issue for every broken image. *)
ImageIssuesPerImage(fails, counts, counter) ==
  IF fails THEN <<>>
  ELSE [k \in 1 .. counts[1] |-> BrokenImagesIssue(1, counts[2], counter)]

(* What check_images logs for the counts (broken, total) it reads: one     *)
(* issue when broken > 0; nothing when a read raises.                      *)
ImageIssues(fails, counts, counter) ==
  IF ~fails /\ counts[1] > 0
  THEN <<BrokenImagesIssue(counts[1], counts[2], counter)>>
  ELSE <<>>

(* check_images: both counts read, one issue when broken > 0; a failing    *)
(* read ends the call through its except.                                  *)
check_images ==
  /\ pc = "check_images"
  /\ \E fails \in Fails("count_images"), counts \in ImageOutcomes :
       issues' = issues \o ImageIssues(fails, counts, screenshot_counter)
  /\ Goto("scroll_top")
  /\ UNCHANGED <<argVars, browser, pageVars, click_failures, clicked_since_dismiss, shotVars, stageVars,
                 sectionVars, runVars>>

(* A session that starts with the 'Select Color Options' CTA. *)
FirstStageIsCta == "continue"

(* The first stage that clicks: STEP 4, the seat option. *)
FirstStage == "seat"

(* The scroll back to top and the two waits (not guarded), the element     *)
(* pre-check (its failure swallowed), take_screenshot                      *)
(* '04_before_seat_selection' and the dismiss_overlays call of STEP 4.     *)
ScrollTop ==
  /\ pc = "scroll_top"
  /\ \E fails \in Fails("scroll_top") :
       IF fails
       THEN Crash("scroll_top") /\ UNCHANGED shotVars
       ELSE CallDismiss(FirstStage) /\ take_screenshot(1)
  /\ UNCHANGED <<argVars, browser, pageVars, click_failures, clicked_since_dismiss, issues, stageVars,
                 sectionVars, runVars>>

----------------------------------------------------------------------------
(* The candidate loops. *)

Candidates == 1 .. MaxCandidates

NoAttempts == [s \in StageNames |-> 0]

(* The locals of a stage after the code has used its result. *)
ResetStage ==
  /\ stage' = "none"
  /\ ci' = 0
  /\ cand' = "none"
  /\ clicked' = <<>>
  /\ click_raised' = 0
  /\ first_usable' = 0
  /\ locked' = FALSE
  /\ found' = FALSE
  /\ used' = 0
  /\ UNCHANGED attempts

(* The loop over a stage's candidates starts. *)
EnterStage(name) ==
  /\ stage' = name
  /\ ci' = 1
  /\ cand' = "none"
  /\ clicked' = <<>>
  /\ click_raised' = 0
  /\ first_usable' = 0
  /\ locked' = FALSE
  /\ found' = FALSE
  /\ used' = 0
  /\ attempts' = [attempts EXCEPT ![name] = @ + 1]

(* A loop that tries the same candidate again. *)
TryNextRetries(lookup, done) ==
  /\ Goto(lookup)
  /\ ci' = ci
  /\ cand' = "none"
  /\ UNCHANGED <<stage, found, used, attempts>>

(* `continue`, or the end of the for loop with nothing found. *)
TryNext(lookup, done) ==
  /\ Goto(IF ci < MaxCandidates THEN lookup ELSE done)
  /\ ci' = IF ci < MaxCandidates THEN ci + 1 ELSE ci
  /\ cand' = "none"
  /\ UNCHANGED <<stage, found, used, attempts>>

(* A candidate loop without its except clause: the raise leaves the loop. *)
OnRaisePropagates(lookup, done) ==
  /\ Crash("candidate")
  /\ UNCHANGED <<stage, ci, cand, found, used, attempts>>

(* `except Exception: continue` of a candidate loop. *)
OnRaise(lookup, done) == TryNext(lookup, done)

(* What the page held for the candidate just looked up: the first          *)
(* candidate of the stage that is present, visible and enabled, and        *)
(* whether one was visible but not enabled.                                *)
NotePage(c) ==
  /\ first_usable' = IF first_usable = 0 /\ c = "usable" THEN ci ELSE first_usable
  /\ locked' = (locked \/ c = "disabled")

DoneOf(name) ==
  CASE name = "seat" -> "seat_done"
    [] name = "continue" -> "continue_done"
    [] name = "color" -> "color_done"
    [] name = "add_to_cart" -> "atc_done"
    [] OTHER -> "checkout_done"

(* A lookup that tests presence and visibility only, in every stage. *)
SkipsUnlessVisible(name, c) == c \in {"absent", "hidden"}

(* Whether the lookup of a stage passes over a candidate in state c:       *)
(* click_first_working and the checkout loop test is_visible only, the     *)
(* add-to-cart loop also is_disabled.                                      *)
Skips(name, c) ==
  IF name = "add_to_cart"
  THEN c \in {"absent", "hidden", "disabled"}
  ELSE c \in {"absent", "hidden"}

(* One lookup: a raise or a skipped candidate goes on to the next one. *)
Lookup(lookup, proceed) ==
  \E c \in CandidateOutcomes, fails \in Fails("lookup") :
    /\ NotePage(c)
    /\ IF fails
       THEN OnRaise(lookup, DoneOf(stage))
       ELSE IF Skips(stage, c)
            THEN TryNext(lookup, DoneOf(stage))
            ELSE proceed /\ cand' = c /\ UNCHANGED <<stage, ci, found, used, attempts>>

CountClickFailure(outcome) ==
  click_failures' = IF outcome \in {"click_failed", "wait_failed"}
                    THEN click_failures + 1
                    ELSE click_failures

(* el.click(force=True) went through for the candidate of this turn. *)
NoteClick(outcome) ==
  /\ clicked' = IF outcome \in {"wait_failed", "ok"}
                THEN Append(clicked, [idx |-> ci, state |-> cand])
                ELSE clicked
  /\ click_raised' = IF outcome = "click_failed" /\ click_raised = 0
                     THEN ci
                     ELSE click_raised
  /\ clicked_since_dismiss' = IF outcome \in {"wait_failed", "ok"}
                              THEN clicked_since_dismiss \cup {stage}
                              ELSE clicked_since_dismiss

(* The end of a turn: success leaves the loop, a raise goes on. *)
EndTurn(outcome, lookup) ==
  IF outcome = "ok"
  THEN /\ Goto(DoneOf(stage))
       /\ found' = TRUE
       /\ used' = ci
       /\ UNCHANGED <<stage, ci, cand, attempts>>
  ELSE OnRaise(lookup, DoneOf(stage))

(* click_first_working is called for the seat option, the 'Select Color    *)
(* Options' CTA or the color option.                                       *)
CallClickFirstWorking ==
  /\ pc \in {"seat", "continue", "color"}
  /\ EnterStage(pc)
  /\ Goto("cfw_lookup")
  /\ UNCHANGED <<argVars, browser, pageVars, click_failures, clicked_since_dismiss, shotVars, issues,
                 sectionVars, runVars>>

(* click_first_working: wait_for_selector and is_visible of one candidate; *)
(* a raise, no element or a hidden one goes on to the next candidate.      *)
CfwLookup ==
  /\ pc = "cfw_lookup"
  /\ Lookup("cfw_lookup", Goto("cfw_click"))
  /\ UNCHANGED <<clicked, click_raised>>
  /\ UNCHANGED <<argVars, browser, pageVars, click_failures, clicked_since_dismiss, shotVars, issues,
                 sectionVars, runVars>>

(* click_first_working: scroll into view and wait, highlight (its failure  *)
(* swallowed), take_screenshot, forced click, settle-wait, return True.    *)
(* Any raise is caught by the loop's except and goes on to the next        *)
(* candidate.                                                              *)
CfwClick ==
  /\ pc = "cfw_click"
  /\ \E outcome \in ClickOutcomes :
       /\ take_screenshot(IF outcome = "prepare_failed" THEN 0 ELSE 1)
       /\ CountClickFailure(outcome)
       /\ NoteClick(outcome)
       /\ EndTurn(outcome, "cfw_lookup")
  /\ UNCHANGED <<first_usable, locked>>
  /\ UNCHANGED <<argVars, browser, pageVars, issues, sectionVars, runVars>>

----------------------------------------------------------------------------
(* test_url: STEP 4 to STEP 6. *)

(* A session that gives up at the first stage that failed. *)
AfterStageStopsOnFailure(ok, label) == IF ok THEN label ELSE "close"

(* Where test_url goes on after the if/else on a stage's result: the same  *)
(* statements follow both branches.                                        *)
AfterStage(ok, label) == label

(* After the seat stage: the checked-state probe (not guarded) and         *)
(* take_screenshot when clicked, else the error screenshot and the issue;  *)
(* then the 1.5 s wait and the dismiss_overlays call of STEP 4.5.          *)
SeatDone ==
  /\ pc = "seat_done"
  /\ \E probe_fails \in Fails("is_checked"), wait_fails \in Fails("wait") :
       IF found /\ probe_fails
       THEN /\ Crash("is_checked")
            /\ UNCHANGED <<shotVars, issues>>
       ELSE /\ take_screenshot(1)
            /\ IF found
               THEN UNCHANGED issues
               ELSE log_issue(SeatIssue(CounterAfter(screenshot_counter, 1)))
            /\ IF wait_fails THEN Crash("wait") ELSE CallDismiss(AfterStage(found, "continue"))
  /\ ResetStage
  /\ UNCHANGED <<argVars, browser, pageVars, click_failures, clicked_since_dismiss, sectionVars, runVars>>

(* After the 'Select Color Options' stage: error screenshot and issue when *)
(* not clicked; then the 1.5 s wait and the dismiss_overlays call of       *)
(* STEP 5.  Nothing here touches the vehicle selects or calls              *)
(* click_first_working again.                                              *)
ContinueDone ==
  /\ pc = "continue_done"
  /\ IF found
     THEN UNCHANGED <<shotVars, issues>>
     ELSE /\ take_screenshot(1)
          /\ log_issue(StepProgressionIssue(CounterAfter(screenshot_counter, 1)))
  /\ \E wait_fails \in Fails("wait") :
       IF wait_fails THEN Crash("wait")
       ELSE CallDismiss(AfterStage(found, "step3_wait"))
  /\ ResetStage
  /\ UNCHANGED <<argVars, browser, pageVars, click_failures, clicked_since_dismiss, sectionVars, runVars>>

(* STEP 5: the waits for a Step 3 selector (their failures swallowed), the *)
(* scroll when none was found, take_screenshot '05_step3_color_section'    *)
(* and the dismiss_overlays call of STEP 6.                                *)
Step3Wait ==
  /\ pc = "step3_wait"
  /\ \E step3_found \in BOOLEAN, scroll_fails \in Fails("scroll_by") :
       IF ~step3_found /\ scroll_fails
       THEN Crash("scroll_by") /\ UNCHANGED shotVars
       ELSE CallDismiss("color") /\ take_screenshot(1)
  /\ UNCHANGED <<argVars, browser, pageVars, click_failures, clicked_since_dismiss, issues, stageVars,
                 sectionVars, runVars>>

(* What page.evaluate of the color checked-state probe may do. *)
ColorProbeOutcomes ==
  CASE profile = "free" -> {"checked", "unchecked", "raises"}
    [] OTHER -> {"checked"}

(* A color probe with no try around it. *)
ColorProbeUnguarded(probe) == probe = "raises"

(* Whether an exception of the color probe leaves its try: the bare except *)
(* sets any_color_checked = False.                                         *)
ColorProbeEscapes(probe) == FALSE

(* After the color stage: the checked-state probe (its failure swallowed), *)
(* one screenshot on either branch, the 2.5 s wait and the                 *)
(* dismiss_overlays call before STEP 7.                                    *)
ColorDone ==
  /\ pc = "color_done"
  /\ \E probe \in ColorProbeOutcomes, wait_fails \in Fails("wait") :
       IF ColorProbeEscapes(probe)
       THEN Crash("any_color_checked") /\ UNCHANGED shotVars
       ELSE /\ take_screenshot(1)
            /\ IF wait_fails THEN Crash("wait")
               ELSE CallDismiss(AfterStage(found, "before_atc"))
  /\ ResetStage
  /\ UNCHANGED <<argVars, browser, pageVars, click_failures, clicked_since_dismiss, issues, sectionVars,
                 runVars>>

----------------------------------------------------------------------------
(* test_url: STEP 7, add to cart. *)

(* take_screenshot '07_before_add_to_cart', the scroll and its wait, and   *)
(* the start of the loop over add_to_cart_selectors.                       *)
BeforeAddToCart ==
  /\ pc = "before_atc"
  /\ take_screenshot(1)
  /\ \E scroll_fails \in Fails("scroll_by") :
       IF scroll_fails
       THEN Crash("scroll_by") /\ UNCHANGED stageVars
       ELSE Goto("atc_lookup") /\ EnterStage("add_to_cart")
  /\ UNCHANGED <<argVars, browser, pageVars, click_failures, clicked_since_dismiss, issues, sectionVars,
                 runVars>>

(* One candidate: wait_for_selector, is_visible, is_disabled, scroll into  *)
(* view and wait; then the dismiss_overlays call inside the loop.          *)
AtcLookup ==
  /\ pc = "atc_lookup"
  /\ Lookup("atc_lookup", CallDismiss("atc_click"))
  /\ UNCHANGED <<clicked, click_raised>>
  /\ UNCHANGED <<argVars, browser, pageVars, click_failures, clicked_since_dismiss, shotVars, issues,
                 sectionVars, runVars>>

(* The highlight script and its wait, take_screenshot, the forced click,   *)
(* the 4.5 s wait, take_screenshot, cart_added = True.  Any raise goes on  *)
(* to the next candidate.                                                  *)
AtcClick ==
  /\ pc = "atc_click"
  /\ \E outcome \in ClickOutcomes :
       /\ take_screenshot(CASE outcome = "prepare_failed" -> 0
                            [] outcome = "ok" -> 2
                            [] OTHER -> 1)
       /\ CountClickFailure(outcome)
       /\ NoteClick(outcome)
       /\ EndTurn(outcome, "atc_lookup")
  /\ UNCHANGED <<first_usable, locked>>
  /\ UNCHANGED <<argVars, browser, pageVars, issues, sectionVars, runVars>>

(* After the loop: error screenshot and issue when cart_added is False;    *)
(* then the 2.5 s wait and the dismiss_overlays call of STEP 8.            *)
AtcDone ==
  /\ pc = "atc_done"
  /\ IF found
     THEN UNCHANGED <<shotVars, issues>>
     ELSE /\ take_screenshot(1)
          /\ log_issue(AddToCartIssue(CounterAfter(screenshot_counter, 1)))
  /\ \E wait_fails \in Fails("wait") :
       IF wait_fails THEN Crash("wait") ELSE CallDismiss(AfterStage(found, "checkout"))
  /\ ResetStage
  /\ UNCHANGED <<argVars, browser, pageVars, click_failures, clicked_since_dismiss, sectionVars, runVars>>

----------------------------------------------------------------------------
(* test_url: STEP 8, checkout. *)

(* The loop over checkout_selectors starts. *)
StartCheckout ==
  /\ pc = "checkout"
  /\ EnterStage("checkout")
  /\ Goto("checkout_lookup")
  /\ UNCHANGED <<argVars, browser, pageVars, click_failures, clicked_since_dismiss, shotVars, issues,
                 sectionVars, runVars>>

(* One candidate: wait_for_selector, is_visible, scroll into view and      *)
(* wait; then the dismiss_overlays call inside the loop.                   *)
CheckoutLookup ==
  /\ pc = "checkout_lookup"
  /\ Lookup("checkout_lookup", CallDismiss("checkout_click"))
  /\ UNCHANGED <<clicked, click_raised>>
  /\ UNCHANGED <<argVars, browser, pageVars, click_failures, clicked_since_dismiss, shotVars, issues,
                 sectionVars, runVars>>

(* A lower() that leaves every character as it is. *)
SameCase(s) == s

Lower(ch) ==
  CASE ch = "C" -> "c" [] ch = "A" -> "a" [] ch = "R" -> "r" [] ch = "T" -> "t"
    [] OTHER -> ch

(* s.lower() *)
LowerCase(s) == [i \in 1 .. Len(s) |-> Lower(s[i])]

(* t in s *)
Contains(s, t) ==
  \E i \in 1 .. (Len(s) - Len(t) + 1) : SubSeq(s, i, i + Len(t) - 1) = t

(* 'checkout' in current_url.lower() or 'cart' in current_url.lower() *)
ReachedCheckout(at_url) ==
  \/ Contains(LowerCase(at_url), <<"c", "h", "e", "c", "k", "o", "u", "t">>)
  \/ Contains(LowerCase(at_url), <<"c", "a", "r", "t">>)

(* The highlight script and its wait, take_screenshot, the forced click,   *)
(* the wait for network idle (its failure swallowed), the 7 s wait,        *)
(* take_screenshot, the URL test with capture_checkout_sections (up to     *)
(* three screenshots, its failure swallowed) or the issue, and             *)
(* checkout_found = True.  Any raise goes on to the next candidate.        *)
CheckoutClick ==
  /\ pc = "checkout_click"
  /\ \E outcome \in ClickOutcomes, landed \in UrlOutcomes,
        captured \in CheckoutCaptureOutcomes :
       /\ take_screenshot(CASE outcome = "prepare_failed" -> 0
                            [] outcome = "ok" /\ ReachedCheckout(landed) -> 2 + captured
                            [] outcome = "ok" -> 2
                            [] OTHER -> 1)
       /\ current_url' = IF outcome = "ok" THEN landed ELSE current_url
       /\ IF outcome = "ok" /\ ~ReachedCheckout(landed)
          THEN log_issue(CheckoutNavigationIssue(landed,
                                                 CounterAfter(screenshot_counter, 2)))
          ELSE UNCHANGED issues
       /\ CountClickFailure(outcome)
       /\ NoteClick(outcome)
       /\ EndTurn(outcome, "checkout_lookup")
  /\ UNCHANGED <<first_usable, locked>>
  /\ UNCHANGED <<argVars, browser, response_status, page_errors, vehicle, sectionVars,
                 runVars>>

(* After the loop: error screenshot and issue when checkout_found is       *)
(* False; then take_screenshot '09_final_page_state' and the end of the    *)
(* try block.                                                              *)
CheckoutDone ==
  /\ pc = "checkout_done"
  /\ IF found
     THEN /\ take_screenshot(1)
          /\ UNCHANGED issues
     ELSE /\ take_screenshot(2)
          /\ log_issue(CheckoutNotFoundIssue(CounterAfter(screenshot_counter, 1)))
  /\ Goto("close")
  /\ ResetStage
  /\ UNCHANGED <<argVars, browser, pageVars, click_failures, clicked_since_dismiss, sectionVars, runVars>>

----------------------------------------------------------------------------
(* test_url: the except handler and the way out. *)

(* An except handler that logs nothing. *)
NoCrashIssues(site, counter) == <<>>

(* An except handler that logs the crash twice. *)
CrashIssuesTwice(site, counter) == <<CrashIssue(site, counter), CrashIssue(site, counter)>>

(* What the except handler of test_url appends to self.issues. *)
CrashIssues(site, counter) == <<CrashIssue(site, counter)>>

(* except Exception: take_screenshot 'ERROR_test_crashed', log_issue *)
CrashHandler ==
  /\ pc = "crashed"
  /\ take_screenshot(1)
  /\ issues' = issues \o CrashIssues(caught, CounterAfter(screenshot_counter, 1))
  /\ Goto("close")
  /\ UNCHANGED <<argVars, browser, pageVars, click_failures, clicked_since_dismiss, stageVars, sectionVars,
                 runVars>>

(* await browser.close() *)
CloseBrowser ==
  /\ pc = "close"
  /\ \E fails \in Fails("browser.close") :
       IF fails
       THEN Escape("browser.close") /\ UNCHANGED browser
       ELSE Goto("exit_scope") /\ browser' = "closed"
  /\ UNCHANGED <<argVars, pageVars, click_failures, clicked_since_dismiss, shotVars, issues, stageVars,
                 sectionVars, runVars>>

(* A scope exit that leaves a running browser as it is. *)
ScopeLeavesBrowser(b) == b

(* Leaving `async with async_playwright()`: the driver is stopped, and a   *)
(* browser it still runs ends with it.                                     *)
ScopeExitBrowser(b) == IF b = "open" THEN "stopped" ELSE b

(* The end of the async with block: test_url returns, or the exception     *)
(* that escaped goes on to the caller.                                     *)
ExitScope ==
  /\ pc = "exit_scope"
  /\ browser' = ScopeExitBrowser(browser)
  /\ Goto(IF escaped = "none" THEN "returned" ELSE "raised")
  /\ UNCHANGED <<argVars, pageVars, click_failures, clicked_since_dismiss, shotVars, issues, stageVars,
                 sectionVars, runVars>>

----------------------------------------------------------------------------
(* run_tests *)

SP == "SP"
TAB == "TAB"
CR == "CR"
LF == "LF"
Whitespace == {SP, TAB, CR, LF}

RECURSIVE LStrip(_)
LStrip(s) == IF s # <<>> /\ Head(s) \in Whitespace THEN LStrip(Tail(s)) ELSE s

RECURSIVE RStrip(_)
RStrip(s) ==
  IF s # <<>> /\ s[Len(s)] \in Whitespace THEN RStrip(SubSeq(s, 1, Len(s) - 1)) ELSE s

(* s.strip() *)
Strip(s) == RStrip(LStrip(s))

RECURSIVE Remove(_, _)
(* s.replace(ch, '') *)
Remove(s, ch) ==
  IF s = <<>> THEN <<>>
  ELSE IF Head(s) = ch THEN Remove(Tail(s), ch)
  ELSE <<Head(s)>> \o Remove(Tail(s), ch)

(* s.startswith(p) *)
StartsWith(s, p) == Len(s) >= Len(p) /\ SubSeq(s, 1, Len(p)) = p

(* url.strip().replace('\r', '').replace('\n', '') *)
Cleaned(raw) == Remove(Remove(Strip(raw), CR), LF)

(* if cleaned and cleaned.startswith('http') *)
Keeps(c) == c # <<>> /\ StartsWith(c, <<"h", "t", "t", "p">>)

RECURSIVE CleanedUrls(_)
(* The list the first loop of run_tests builds. *)
CleanedUrls(raws) ==
  IF raws = <<>> THEN <<>>
  ELSE (IF Keeps(Cleaned(Head(raws))) THEN <<Cleaned(Head(raws))>> ELSE <<>>)
       \o CleanedUrls(Tail(raws))

(* Raw lines of a urls file. *)
RawGood == <<"h", "t", "t", "p", "a">>
RawPadded == <<SP, "h", "t", "t", "p", "b", CR, LF>>
RawSplit == <<"h", "t", CR, "t", "p", "c">>
RawFtp == <<"f", "t", "p", "d">>
RawBlank == <<SP, LF>>

(* The url lists run_tests is called with. *)
UrlLists ==
  { <<>>,
    <<RawGood>>,
    <<RawFtp, RawPadded>>,
    <<RawBlank, RawSplit, RawGood>> }

(* A loop body that runs the desktop session only. *)
DesktopOnly == "desktop"

(* The devices of one url, in the order of the loop body. *)
NextDevice == IF device = "desktop" THEN "mobile" ELSE "desktop"

(* The first loop of run_tests: cleaned_urls. *)
RunStart ==
  /\ rpc = "start"
  /\ cleaned_urls' = CleanedUrls(urls)
  /\ ui' = 1
  /\ rpc' = "loop"
  /\ UNCHANGED <<urls, report, sessions>>
  /\ UNCHANGED <<argVars, controlVars, browser, pageVars, click_failures, clicked_since_dismiss, shotVars,
                 issues, stageVars, sectionVars>>

(* await self.test_url(url, device): a new call, with fresh locals, on the *)
(* same SeatCoverQA object.                                                *)
StartSession ==
  /\ rpc = "loop"
  /\ ui <= Len(cleaned_urls)
  /\ \E p \in RunProfiles : profile' = p
  /\ url' = cleaned_urls[ui]
  /\ device' = NextDevice
  /\ sessions' = Append(sessions, <<cleaned_urls[ui], NextDevice>>)
  /\ rpc' = "in_session"
  /\ pc' = "launch"
  /\ browser' = "none"
  /\ caught' = "none"
  /\ escaped' = "none"
  /\ ret' = "none"
  /\ ov_swallowed' = FALSE
  /\ response_status' = 0
  /\ page_errors' = 0
  /\ current_url' = <<>>
  /\ click_failures' = 0
  /\ clicked_since_dismiss' = {}
  /\ stage' = "none"
  /\ ci' = 0
  /\ cand' = "none"
  /\ clicked' = <<>>
  /\ click_raised' = 0
  /\ first_usable' = 0
  /\ locked' = FALSE
  /\ found' = FALSE
  /\ used' = 0
  /\ attempts' = NoAttempts
  /\ UNCHANGED <<vehicle, shotVars, issues, sectionVars, urls, cleaned_urls, ui, report>>

(* test_url returned; the sleep, and the loop goes on. *)
SessionReturned ==
  /\ rpc = "in_session"
  /\ pc = "returned"
  /\ pc' = "idle"
  /\ rpc' = "loop"
  /\ ui' = IF device = "mobile" THEN ui + 1 ELSE ui
  /\ UNCHANGED <<caught, escaped, ret, ov_swallowed>>
  /\ UNCHANGED <<argVars, browser, pageVars, click_failures, clicked_since_dismiss, shotVars, issues,
                 stageVars, sectionVars, urls, cleaned_urls, report, sessions>>

(* test_url raised; nothing in run_tests catches it. *)
SessionRaised ==
  /\ rpc = "in_session"
  /\ pc = "raised"
  /\ rpc' = "aborted"
  /\ UNCHANGED <<urls, cleaned_urls, ui, report, sessions>>
  /\ UNCHANGED <<argVars, controlVars, browser, pageVars, click_failures, clicked_since_dismiss, shotVars,
                 issues, stageVars, sectionVars>>

(* A report of the critical issues only. *)
SerializedCriticalOnly(list) == SelectSeq(list, LAMBDA i : i.severity = "critical")

(* json.dump(list, f, indent=2): the list as it is, in its order. *)
Serialized(list) == list

(* json.dump(self.issues, f) after the loop *)
WriteReport ==
  /\ rpc = "loop"
  /\ ui > Len(cleaned_urls)
  /\ report' = Serialized(issues)
  /\ rpc' = "done"
  /\ UNCHANGED <<urls, cleaned_urls, ui, sessions>>
  /\ UNCHANGED <<argVars, controlVars, browser, pageVars, click_failures, clicked_since_dismiss, shotVars,
                 issues, stageVars, sectionVars>>

----------------------------------------------------------------------------
(* The two specifications. *)

SessionUrls == {RawGood}

(* SeatCoverQA() and the locals of a test_url call before its first line. *)
FreshObject ==
  /\ browser = "none"
  /\ caught = "none"
  /\ escaped = "none"
  /\ ret = "none"
  /\ ov_swallowed = FALSE
  /\ response_status = 0
  /\ page_errors = 0
  /\ current_url = <<>>
  /\ vehicle = [Trim |-> Placeholder, Cab |-> Placeholder]
  /\ click_failures = 0
  /\ clicked_since_dismiss = {}
  /\ screenshot_counter = 0
  /\ shots = <<>>
  /\ issues = <<>>
  /\ stage = "none"
  /\ ci = 0
  /\ cand = "none"
  /\ clicked = <<>>
  /\ click_raised = 0
  /\ first_usable = 0
  /\ locked = FALSE
  /\ found = FALSE
  /\ used = 0
  /\ attempts = NoAttempts
  /\ scroll_pos = 0
  /\ section_num = 0
  /\ page_height = 0
  /\ viewport_height = 0
  /\ cleaned_urls = <<>>
  /\ ui = 0
  /\ report = "none"
  /\ sessions = <<>>

(* One call test_url(url, device) on a fresh object. *)
InitSession ==
  /\ FreshObject
  /\ pc = "launch"
  /\ url \in SessionUrls
  /\ device \in Devices
  /\ profile = "free"
  /\ rpc = "direct"
  /\ urls = <<>>

NextSession ==
  \/ Launch \/ NewContext \/ NewPage
  \/ dismiss_overlays \/ DismissReturn
  \/ LoadPage \/ InitialShot \/ SectionsStart \/ SectionLoop \/ check_images
  \/ ScrollTop
  \/ CallClickFirstWorking \/ CfwLookup \/ CfwClick
  \/ SeatDone \/ ContinueDone \/ Step3Wait \/ ColorDone
  \/ BeforeAddToCart \/ AtcLookup \/ AtcClick \/ AtcDone
  \/ StartCheckout \/ CheckoutLookup \/ CheckoutClick \/ CheckoutDone
  \/ CrashHandler \/ CloseBrowser \/ ExitScope

Spec == InitSession /\ [][NextSession]_vars

(* One call run_tests(urls) on a fresh object. *)
InitRun ==
  /\ FreshObject
  /\ pc = "idle"
  /\ url = <<>>
  /\ device = "none"
  /\ profile = "none"
  /\ rpc = "start"
  /\ urls \in UrlLists

NextRun ==
  \/ RunStart \/ StartSession \/ SessionReturned \/ SessionRaised \/ WriteReport
  \/ Launch \/ NewContext \/ NewPage
  \/ dismiss_overlays \/ DismissReturn
  \/ LoadPage \/ InitialShot \/ SectionsStart \/ SectionLoop \/ check_images
  \/ ScrollTop
  \/ CallClickFirstWorking \/ CfwLookup \/ CfwClick
  \/ SeatDone \/ ContinueDone \/ Step3Wait \/ ColorDone
  \/ BeforeAddToCart \/ AtcLookup \/ AtcClick \/ AtcDone
  \/ StartCheckout \/ CheckoutLookup \/ CheckoutClick \/ CheckoutDone
  \/ CrashHandler \/ CloseBrowser \/ ExitScope

SpecRun == InitRun /\ [][NextRun]_vars

(* A test_url call at its capture_page_sections call, right after          *)
(* take_screenshot '01_initial_page_load', on a page of any height in a    *)
(* window of any height.                                                   *)
InitSections ==
  /\ pc = "sections"
  /\ url \in SessionUrls
  /\ device \in Devices
  /\ profile = "sections"
  /\ rpc = "direct"
  /\ urls = <<>>
  /\ browser = "open"
  /\ caught = "none"
  /\ escaped = "none"
  /\ ret = "none"
  /\ ov_swallowed = FALSE
  /\ response_status \in {200, 404}
  /\ page_errors = 0
  /\ current_url = <<>>
  /\ vehicle = [Trim |-> Placeholder, Cab |-> Placeholder]
  /\ click_failures = 0
  /\ clicked_since_dismiss = {}
  /\ screenshot_counter = NextCounter(0)
  /\ shots = <<NextCounter(0)>>
  /\ issues = <<>>
  /\ stage = "none"
  /\ ci = 0
  /\ cand = "none"
  /\ clicked = <<>>
  /\ click_raised = 0
  /\ first_usable = 0
  /\ locked = FALSE
  /\ found = FALSE
  /\ used = 0
  /\ attempts = NoAttempts
  /\ scroll_pos = 0
  /\ section_num = 0
  /\ page_height = 0
  /\ viewport_height = 0
  /\ cleaned_urls = <<>>
  /\ ui = 0
  /\ report = "none"
  /\ sessions = <<>>

NextSections == SectionsStart \/ SectionLoop

(* The call runs on: each await of it completes or raises. *)
SpecSections == InitSections /\ [][NextSections]_vars /\ WF_vars(NextSections)

----------------------------------------------------------------------------
(* Properties. *)

LoopPcs == {"cfw_lookup", "cfw_click", "atc_lookup", "atc_click",
            "checkout_lookup", "checkout_click"}
CfwPcs == {"cfw_lookup", "cfw_click"}
CfwDonePcs == {"seat_done", "continue_done", "color_done"}
DonePcs == CfwDonePcs \cup {"atc_done", "checkout_done"}

(* No candidate the running stage has looked up was present and visible. *)
NoneVisible == first_usable = 0 /\ ~locked

(* C1: what a stage clicks, and the locator it reports as used, is the     *)
(* first candidate in list order that is present, visible and enabled;     *)
(* once a candidate met the predicates no later candidate is tried or      *)
(* clicked.                                                                *)
C1_FirstUsableIsUsed ==
  /\ \A k \in DOMAIN clicked : clicked[k].idx = first_usable
  /\ found => used = first_usable
  /\ (pc \in LoopPcs \cup DonePcs /\ first_usable # 0) => ci = first_usable

(* A step of click_first_working stays inside it or returns, and returns  *)
(* (False, None) when nothing visible was met.                             *)
CfwStepStaysInside ==
  pc \in CfwPcs =>
    /\ pc' \in CfwPcs \cup CfwDonePcs
    /\ caught' = caught
    /\ escaped' = escaped
    /\ (pc' \in CfwDonePcs /\ NoneVisible') =>
         (~found' /\ used' = 0 /\ clicked' = <<>>)

(* C2: when no candidate matches a present and visible element,            *)
(* click_first_working returns (False, None) with nothing clicked, and no  *)
(* failure of a lookup, visibility test or scroll inside it leaves it as   *)
(* an exception.                                                           *)
C2_NoMatchReturnsFalseNone ==
  [][CfwStepStaysInside]_vars

C2_Witness ==
  /\ pc \in CfwDonePcs
  /\ NoneVisible
  /\ ci = MaxCandidates
  /\ ~found
  /\ used = 0

(* C3: every call of test_url returns normally; no failure of a page       *)
(* operation, opening the context or page included, leaves it as an        *)
(* exception.                                                              *)
C3_SessionReturnsNormally == pc # "raised"

RECURSIVE Pairs(_)
Pairs(us) ==
  IF us = <<>> THEN <<>>
  ELSE <<<<Head(us), "desktop">>, <<Head(us), "mobile">>>> \o Pairs(Tail(us))

(* C5: run_tests is never aborted by a session; it runs a session for      *)
(* every (url, device) pair of the valid urls and then writes the report.  *)
C5_BatchNeverAborts ==
  /\ rpc # "aborted"
  /\ rpc = "done" => (sessions = Pairs(cleaned_urls) /\ report = issues)

CrashIssuesOf(list) == SelectSeq(list, LAMBDA i : i.category = "Test Crashed")

AfterHandlerPcs == {"close", "exit_scope", "returned", "raised"}

(* C6: an exception that reaches the handler of the session body leaves    *)
(* exactly one issue of category 'Test Crashed': critical, with the        *)
(* session's url and device, logged right after the diagnostic screenshot  *)
(* was attempted; after it the session only closes the browser and ends.   *)
(* A session in which nothing reached the handler has no such issue.       *)
C6_CrashLoggedOnce ==
  /\ (caught = "none" \/ pc = "crashed") => CrashIssuesOf(issues) = <<>>
  /\ (caught # "none" /\ pc # "crashed") =>
       /\ pc \in AfterHandlerPcs
       /\ Len(CrashIssuesOf(issues)) = 1
       /\ issues[Len(issues)].category = "Test Crashed"
       /\ issues[Len(issues)].severity = "critical"
       /\ issues[Len(issues)].url = url
       /\ issues[Len(issues)].device = device
       /\ shots # <<>>
       /\ shots[Len(shots)] = screenshot_counter
       /\ issues[Len(issues)].screenshot = Fmt04(screenshot_counter)

C6_Witness ==
  /\ caught = "goto"
  /\ pc = "returned"
  /\ Len(issues) = 1
  /\ issues[1].category = "Test Crashed"

(* A step of dismiss_overlays ends its body or returns to the caller. *)
DismissStepReturns ==
  /\ pc = "dismiss_overlays" =>
       (pc' = "dismiss_return" /\ ret' = ret /\ ret # "none"
        /\ caught' = caught /\ escaped' = escaped)
  /\ pc = "dismiss_return" =>
       (pc' = ret /\ caught' = caught /\ escaped' = escaped)

(* C7: dismiss_overlays never raises and always returns to its caller,     *)
(* whether no overlay is present or a close selector or the chat-widget    *)
(* script fails.                                                           *)
C7_DismissAlwaysReturns == [][DismissStepReturns]_vars

C7_Witness == pc = "dismiss_return" /\ ov_swallowed /\ ret = "atc_click"

Categories == {"Broken Images", "Seat Selection Failed", "Step Progression",
               "Add to Cart Failed", "Checkout Navigation", "Checkout Not Found",
               "Test Crashed"}

StrictlyIncreasing(s) == \A i, j \in DOMAIN s : i < j => s[i] < s[j]

(* A step never lowers the counter, and the numbers handed out so far are  *)
(* strictly increasing and not above it.                                   *)
CounterStepIncreases ==
  /\ screenshot_counter' >= screenshot_counter
  /\ StrictlyIncreasing(shots')
  /\ \A i \in DOMAIN shots' : shots'[i] <= screenshot_counter'

(* C9: across a whole run every take_screenshot call gets a number greater *)
(* than all earlier ones, and the counter never goes down, between stages  *)
(* or between sessions.                                                    *)
C9_CounterStrictlyIncreasing == [][CounterStepIncreases]_vars

C9_Witness ==
  /\ Len(sessions) = 2
  /\ pc = "sections"
  /\ Len(shots) >= 4
  /\ shots[Len(shots)] = screenshot_counter

(* C10: when the stage-advancing CTA is visible but not enabled while the  *)
(* Trim and Cab selects show their placeholder, the CTA stage ends only    *)
(* after both selects were given a non-placeholder value and the CTA was   *)
(* clicked a second time, with success.                                    *)
C10_UnlockThenRetry ==
  (pc = "continue_done" /\ locked /\ first_usable = 0) =>
    /\ vehicle.Trim # Placeholder
    /\ vehicle.Cab # Placeholder
    /\ attempts["continue"] = 2
    /\ found


LaterStages == {"color", "add_to_cart", "checkout"}

C12_SeatSelectionFirst ==
  (attempts["seat"] = 0 \/ (stage = "seat" /\ clicked = <<>>)) =>
    /\ \A s \in StageNames \ {"seat"} : attempts[s] = 0
    /\ vehicle = [Trim |-> Placeholder, Cab |-> Placeholder]

C12_Witness ==
  /\ stage = "seat"
  /\ pc = "seat_done"
  /\ found
  /\ Len(clicked) = 1
  /\ attempts["continue"] = 0

AddToCartIssuesOf(list) ==
  SelectSeq(list, LAMBDA i : i.category = "Add to Cart Failed")

(* A step of the add-to-cart stage: a disabled button is passed over for   *)
(* the next candidate and never clicked, and a stage that met no enabled   *)
(* visible button logs the one critical 'Add to Cart Failed' issue.        *)
AtcStepSkipsDisabled ==
  /\ pc = "atc_lookup" /\ locked' /\ ~locked => pc' \in {"atc_lookup", "atc_done"}
  /\ pc = "atc_click" => cand = "usable"
  /\ stage' = "add_to_cart" => \A k \in DOMAIN clicked' : clicked'[k].state = "usable"
  /\ pc = "atc_done" /\ first_usable = 0 =>
       /\ ~found
       /\ Len(issues') = Len(issues) + 1
       /\ issues'[Len(issues')].category = "Add to Cart Failed"
       /\ issues'[Len(issues')].severity = "critical"
       /\ Len(AddToCartIssuesOf(issues')) = 1

(* C13: in the add-to-cart stage a visible but disabled button is never    *)
(* clicked and the loop goes on with the next candidate; when no candidate *)
(* is an enabled visible button the session logs exactly one critical      *)
(* 'Add to Cart Failed' issue.                                             *)
C13_DisabledAddToCartSkipped == [][AtcStepSkipsDisabled]_vars

C13_Witness ==
  /\ pc = "atc_done"
  /\ locked
  /\ first_usable = 0
  /\ ~found
  /\ clicked = <<>>


(* The result URLs that contain neither 'checkout' nor 'cart' in any case. *)
WrongUrls == {UrlProduct, UrlCar}

(* A step of the checkout stage and of the way out after it: a click that  *)
(* lands on a wrong URL logs the medium issue and counts as found; the     *)
(* session then takes the final screenshot, closes the browser and leaves  *)
(* test_url, with nothing reaching the except handler.                     *)
WrongUrlStepGoesOn ==
  /\ pc = "checkout_click" /\ pc' = "checkout_done" /\ found' =>
       IF current_url' \in WrongUrls
       THEN /\ Len(issues') = Len(issues) + 1
            /\ issues'[Len(issues')].category = "Checkout Navigation"
            /\ issues'[Len(issues')].severity = "medium"
       ELSE issues' = issues
  /\ pc = "checkout_done" /\ current_url \in WrongUrls =>
       /\ pc' = "close"
       /\ Len(shots') = Len(shots) + 1
       /\ issues' = issues
       /\ caught' = "none"
  /\ pc = "close" /\ current_url \in WrongUrls => pc' = "exit_scope"
  /\ pc = "exit_scope" /\ current_url \in WrongUrls =>
       /\ browser' # "open"
       /\ escaped \in {"none", "browser.close"}
       /\ pc' = IF escaped = "none" THEN "returned" ELSE "raised"

(* C14: a checkout click that ends on a URL with neither 'checkout' nor    *)
(* 'cart' in it, in any case, logs a medium 'Checkout Navigation' issue    *)
(* and the session goes on to its end: final screenshot, browser closed.   *)
C14_WrongUrlIsMediumAndGoesOn == [][WrongUrlStepGoesOn]_vars

C14_Witness ==
  /\ pc = "returned"
  /\ current_url = UrlProduct
  /\ browser = "closed"
  /\ issues # <<>>
  /\ issues[Len(issues)].category = "Checkout Navigation"


BrokenImageIssuesOf(list) == SelectSeq(list, LAMBDA i : i.category = "Broken Images")

(* C15: for b broken images out of t the probe logs exactly one high       *)
(* 'Broken Images' issue carrying b and t when b > 0 and none when b = 0;  *)
(* a session never holds more than one such issue.                         *)
C15_OneBrokenImagesIssue ==
  /\ \A counts \in ImageCounts :
       LET logged == ImageIssues(FALSE, counts, screenshot_counter) IN
       IF counts[1] > 0
       THEN /\ Len(logged) = 1
            /\ logged[1].category = "Broken Images"
            /\ logged[1].severity = "high"
            /\ logged[1].issue[2] = counts[1]
            /\ logged[1].issue[3] = counts[2]
       ELSE logged = <<>>
  /\ Len(BrokenImageIssuesOf(issues)) <= 1
  /\ \A i \in DOMAIN issues :
       issues[i].category = "Broken Images" =>
         /\ issues[i].severity = "high"
         /\ <<issues[i].issue[2], issues[i].issue[3]>> \in ImageCounts
         /\ issues[i].issue[2] > 0

C15_Witness ==
  /\ pc = "scroll_top"
  /\ Len(issues) = 1
  /\ issues[1].category = "Broken Images"
  /\ issues[1].issue[2] = 3


ProbeCategories == {"Broken Images", "Step Progression"}

(* C16: a session whose top-level navigation answered with a status other  *)
(* than 200 ends with an issue of severity high for it.                    *)
C16_Non200IsHigh ==
  (pc = "returned" /\ response_status \notin {0, 200}) =>
    \E i \in DOMAIN issues :
      /\ issues[i].severity = "high"
      /\ issues[i].category \notin ProbeCategories

(* The issues of the running session that no stage or image probe logs. *)
ErrorProbeIssues ==
  {i \in DOMAIN issues :
     /\ issues[i].url = url
     /\ issues[i].device = device
     /\ issues[i].severity = "medium"
     /\ issues[i].category \notin Categories}

(* C17: a session during which the page had a console error or a failed    *)
(* request ends with exactly one medium issue for them.                    *)
C17_PageErrorsAreOneMediumIssue ==
  (pc = "returned" /\ page_errors > 0) => Cardinality(ErrorProbeIssues) = 1

(* A step that logs issues gives each the url and device of the session    *)
(* that is running, which is the last one run_tests started.               *)
LoggedForRunningSession ==
  \A i \in (Len(issues) + 1) .. Len(issues') :
    /\ rpc = "in_session"
    /\ issues'[i].url = url
    /\ issues'[i].device = device
    /\ <<issues'[i].url, issues'[i].device>> = sessions[Len(sessions)]

(* C18: every issue carries the url and device of the session that was     *)
(* running when it was logged.                                             *)
C18_IssueNamesItsSession == [][LoggedForRunningSession]_vars

C18_Witness ==
  /\ Len(sessions) = 2
  /\ \E i, j \in DOMAIN issues :
       /\ issues[i].device = "desktop"
       /\ issues[j].device = "mobile"
       /\ issues[j].url = url

IsPrefix(a, b) == Len(a) <= Len(b) /\ SubSeq(b, 1, Len(a)) = a

SessionPcs == {"idle", "returned", "raised"}

(* A session starts only when none is running and no browser is open, and  *)
(* the sessions started are those of the valid urls in list order, desktop *)
(* before mobile.                                                          *)
OneSessionAtATime ==
  /\ rpc' = "in_session" /\ rpc # "in_session" =>
       /\ pc = "idle"
       /\ browser # "open"
       /\ Len(sessions') = Len(sessions) + 1
  /\ browser' = "open" => rpc' = "in_session" /\ pc' \notin SessionPcs
  /\ IsPrefix(sessions', Pairs(cleaned_urls'))
  /\ rpc' = "done" => sessions' = Pairs(cleaned_urls')

(* C19: sessions run one at a time: at most one browser is open, and for   *)
(* each valid url in list order the desktop session ends before the mobile *)
(* session of that url starts, which ends before the next url's sessions.  *)
C19_SessionsRunInSequence == [][OneSessionAtATime]_vars

C19_Witness ==
  /\ Len(cleaned_urls) = 2
  /\ Len(sessions) = 3
  /\ pc = "launch"
  /\ device = "desktop"
  /\ ui = 2

(* A step leaves the issues logged so far as they are, in place, and adds  *)
(* at most one; the except handler and every failed stage that logs add    *)
(* exactly one, whatever is in the list already.                           *)
IssuesOnlyAppended ==
  /\ IsPrefix(issues, issues')
  /\ Len(issues') <= Len(issues) + 1
  /\ pc = "crashed" => Len(issues') = Len(issues) + 1
  /\ pc \in {"seat_done", "continue_done", "atc_done", "checkout_done"} /\ ~found =>
       Len(issues') = Len(issues) + 1

(* C20: the issue list is append-only: log_issue adds exactly one entry,   *)
(* without deduplication or limit, and what was logged earlier stays an    *)
(* unchanged prefix of the list.                                           *)
C20_IssuesAppendOnly == [][IssuesOnlyAppended]_vars

C20_Witness ==
  /\ Len(sessions) >= 2
  /\ \E i, j \in DOMAIN issues :
       /\ i < j
       /\ issues[i].category = "Test Crashed"
       /\ issues[j].category = "Test Crashed"


(* The session of the run that logged an issue. *)
SessionIndex(iss) == CHOOSE k \in DOMAIN sessions : sessions[k] = <<iss.url, iss.device>>

(* C21: the report is written only after the last session has ended, and   *)
(* it holds exactly the issues the sessions logged, each once, those of an *)
(* earlier session before those of a later one.                            *)
C21_ReportIsAllIssuesInOrder ==
  /\ rpc # "done" => report = "none"
  /\ rpc = "done" =>
       /\ pc = "idle"
       /\ browser # "open"
       /\ sessions = Pairs(cleaned_urls)
       /\ report = issues
       /\ \A i, j \in DOMAIN report :
            i < j => SessionIndex(report[i]) <= SessionIndex(report[j])

C21_Witness ==
  /\ rpc = "done"
  /\ Len(sessions) = 4
  /\ Len(report) >= 3
  /\ report[1].device = "desktop"
  /\ report[Len(report)].device = "mobile"
  /\ report[1].url # report[Len(report)].url

IssueFields == {"url", "device", "severity", "category", "issue", "screenshot",
                "timestamp"}

(* C22: every issue logged has the seven fields url, device, severity,     *)
(* category, issue (the description), screenshot and timestamp; its        *)
(* severity is critical, high, medium or low and its device desktop or     *)
(* mobile.                                                                 *)
C22_IssueHasSevenFields ==
  \A i \in DOMAIN issues :
    /\ DOMAIN issues[i] = IssueFields
    /\ issues[i].severity \in Severities
    /\ issues[i].device \in Devices

C22_Witness ==
  /\ Len(issues) >= 5
  /\ \E i, j \in DOMAIN issues :
       /\ issues[i].device = "desktop" /\ issues[i].severity = "high"
       /\ issues[j].device = "mobile" /\ issues[j].severity = "medium"


(* The call of dismiss_overlays that stands before the next stage. *)
GoesOnTo(label) ==
  \/ pc' = "dismiss_overlays" /\ ret' = label
  \/ pc' = "crashed" /\ caught' = "wait"

(* A step taken with the result of a stage that failed: the session goes   *)
(* on to the dismiss_overlays call before the next stage, and only a raise *)
(* of the wait in between takes it to the handler; the step after the      *)
(* checkout stage takes the final screenshot.                              *)
FailedStageGoesOn ==
  /\ pc = "seat_done" /\ ~found => GoesOnTo("continue")
  /\ pc = "continue_done" /\ ~found => GoesOnTo("step3_wait")
  /\ pc = "color_done" /\ ~found => GoesOnTo("before_atc")
  /\ pc = "atc_done" /\ ~found => GoesOnTo("checkout")
  /\ pc = "checkout_done" => pc' = "close" /\ Len(shots') > Len(shots)

AllStagesAttempted == \A s \in StageNames : attempts[s] = 1

(* C23: a stage that failed (seat selection, 'Select Color Options', color *)
(* selection, add to cart) does not end the session: it goes on to the     *)
(* next stage, and a session that nothing took to the handler has          *)
(* attempted all five stages and taken the final screenshot.               *)
C23_FailedStageGoesOn ==
  /\ [](pc = "close" /\ caught = "none" => AllStagesAttempted)
  /\ [][FailedStageGoesOn]_vars

C23_Witness ==
  /\ pc = "close"
  /\ caught = "none"
  /\ AllStagesAttempted
  /\ {issues[i].category : i \in DOMAIN issues} =
       {"Seat Selection Failed", "Step Progression", "Add to Cart Failed",
        "Checkout Not Found"}


(* C24: when the click on a resolved candidate itself raises, the stage    *)
(* ends as failed: no later candidate is clicked in its place and the      *)
(* stage does not come out as found.                                       *)
C24_ClickFailureEndsStage ==
  click_raised # 0 =>
    /\ ~found
    /\ \A k \in DOMAIN clicked : clicked[k].idx < click_raised


(* C25: the checked-state probe after the seat click is advisory: its      *)
(* failure never reaches the handler of the session, so no issue is logged *)
(* on its account and the 'Select Color Options' stage follows.            *)
C25_SeatProbeIsAdvisory ==
  /\ caught # "is_checked"
  /\ \A i \in DOMAIN issues :
       issues[i].category = "Test Crashed" => issues[i].issue[2] # "is_checked"


(* A step of the color stage and of the way to the add-to-cart stage: the  *)
(* color stage and the code that uses its result log nothing and take one  *)
(* screenshot, then go on to the dismiss_overlays call before STEP 7; the  *)
(* step after it enters the add-to-cart loop.  Only a raise of the wait or *)
(* of the scroll in between takes the session to the handler.              *)
ColorStepIsBestEffort ==
  /\ stage = "color" \/ pc \in {"color", "color_done"} => issues' = issues
  /\ pc = "color_done" =>
       /\ Len(shots') = Len(shots) + 1
       /\ GoesOnTo("before_atc")
  /\ pc = "before_atc" =>
       \/ pc' = "atc_lookup" /\ stage' = "add_to_cart" /\ attempts'["add_to_cart"] = 1
       \/ pc' = "crashed" /\ caught' = "scroll_by"

(* C26: the color stage never logs an issue, whether or not a color was    *)
(* clicked and whatever the checked-state probe does, and the add-to-cart  *)
(* stage follows it.                                                       *)
C26_ColorStageIsBestEffort == [][ColorStepIsBestEffort]_vars

C26_Witness ==
  /\ pc = "color_done"
  /\ attempts["color"] = 1
  /\ ~found
  /\ clicked = <<>>
  /\ issues = <<>>


(* The stages in the order test_url runs them. *)
StageOrder == <<"seat", "continue", "color", "add_to_cart", "checkout">>

LookupPcs == {"cfw_lookup", "atc_lookup", "checkout_lookup"}
ClickPcs == {"cfw_click", "atc_click", "checkout_click"}
EndedPcs == {"crashed", "close", "exit_scope", "returned", "raised"}

(* Each stage was entered at most once, none before the one that stands    *)
(* before it, none before the page was loaded, and none is running once    *)
(* the session has left its body.                                          *)
StagesInOrder ==
  /\ \A s \in StageNames : attempts[s] \in {0, 1}
  /\ \A k \in 2 .. Len(StageOrder) :
       attempts[StageOrder[k]] = 1 => attempts[StageOrder[k - 1]] = 1
  /\ \A k \in DOMAIN StageOrder :
       stage = StageOrder[k] =>
         /\ attempts[stage] = 1
         /\ \A j \in (k + 1) .. Len(StageOrder) : attempts[StageOrder[j]] = 0
  /\ response_status = 0 => attempts = NoAttempts /\ stage = "none"
  /\ pc \in EndedPcs => stage = "none" /\ clicked = <<>>
  /\ stage # "none" => ci \in Candidates
  /\ StrictlyIncreasing([k \in DOMAIN clicked |-> clicked[k].idx])

(* A step of a candidate loop takes up the next candidate or leaves the    *)
(* loop, and a session that has left its body enters no stage and clicks   *)
(* nothing.                                                                *)
CandidateTriedOnce ==
  /\ pc \in LookupPcs \cup ClickPcs /\ pc' \in LookupPcs => ci' = ci + 1
  /\ pc \in LookupPcs /\ pc' \notin LookupPcs => ci' = ci
  /\ clicked' # clicked /\ clicked' # <<>> =>
       /\ pc \in ClickPcs
       /\ clicked' = Append(clicked, [idx |-> ci, state |-> cand])
  /\ pc \in EndedPcs => attempts' = attempts /\ stage' = "none" /\ clicked' = <<>>

(* C27: the stages run in the order seat selection, 'Select Color          *)
(* Options', color selection, add to cart, checkout; each is attempted at  *)
(* most once and each of its candidates tried at most once; no stage acts  *)
(* before the page load or after the session has ended.                    *)
C27_StagesOnceInOrder == []StagesInOrder /\ [][CandidateTriedOnce]_vars

C27_Witness ==
  /\ pc = "checkout_click"
  /\ ci = MaxCandidates
  /\ \A s \in StageNames : attempts[s] = 1
  /\ response_status = 200


(* The positions dismiss_overlays returns to before a stage clicks: the    *)
(* three click_first_working calls and the click of the add-to-cart and    *)
(* checkout loops.                                                         *)
AfterDismissPcs == {"seat", "continue", "color", "atc_click", "checkout_click"}

(* A step that clicks: no other stage has clicked since dismiss_overlays   *)
(* was last called, and the call is what clears the record; a stage's      *)
(* clicking code is entered from a return of dismiss_overlays only.        *)
ClickFollowsDismiss ==
  /\ pc' \in AfterDismissPcs /\ pc' # pc => pc = "dismiss_return"
  /\ pc' = "cfw_lookup" /\ pc \notin CfwPcs => pc \in AfterDismissPcs
  /\ clicked' # clicked /\ clicked' # <<>> =>
       /\ clicked_since_dismiss \subseteq {stage}
       /\ clicked_since_dismiss' = {stage}
  /\ clicked_since_dismiss' # clicked_since_dismiss =>
       \/ pc \in ClickPcs /\ clicked_since_dismiss' = clicked_since_dismiss \cup {stage}
       \/ pc = "dismiss_overlays" /\ clicked_since_dismiss' = {}

(* C28: every stage click of a session comes after a dismiss_overlays call *)
(* made since the click of the stage before it: when a stage is about to   *)
(* click, no other stage has clicked since the last call, and the code     *)
(* that clicks is reached from a return of dismiss_overlays.               *)
C28_DismissBeforeStageClick ==
  /\ [](pc \in ClickPcs => clicked_since_dismiss \subseteq {stage})
  /\ [](Cardinality(clicked_since_dismiss) <= 1)
  /\ [][ClickFollowsDismiss]_vars

C28_Witness ==
  /\ pc = "checkout_done"
  /\ found
  /\ clicked_since_dismiss = {"checkout"}
  /\ issues = <<>>


(* C29: a stage clicks at most one element, and it comes out as failed     *)
(* only when it clicked nothing: a raise of the settle-wait after a click  *)
(* leads neither to a click on a later candidate nor to a failed stage.    *)
C29_OneClickPerStage ==
  /\ Len(clicked) <= 1
  /\ pc \in DonePcs /\ ~found => clicked = <<>>


IssuesOfCategory(c) == SelectSeq(issues, LAMBDA i : i.category = c)

CategoriesLogged == {issues[i].category : i \in DOMAIN issues}

(* C30: a session logs at most one issue of each category and never both a *)
(* 'Checkout Navigation' and a 'Checkout Not Found' issue, so at most six  *)
(* issues in all.                                                          *)
C30_OneIssuePerCategory ==
  /\ \A c \in CategoriesLogged : Len(IssuesOfCategory(c)) = 1
  /\ ~({"Checkout Navigation", "Checkout Not Found"} \subseteq CategoriesLogged)
  /\ CategoriesLogged \subseteq Categories
  /\ Len(issues) <= 6

C30_Witness ==
  /\ pc = "returned"
  /\ Len(issues) = 5
  /\ "Checkout Navigation" \in CategoriesLogged
  /\ "Broken Images" \in CategoriesLogged


StageFailureCategories == {"Seat Selection Failed", "Step Progression",
                           "Add to Cart Failed", "Checkout Not Found"}

(* The take_screenshot calls a step makes before it logs an issue of the   *)
(* category: check_images makes none, a stage failure and the handler the  *)
(* error screenshot, the checkout click the two around the click.          *)
CallsBeforeLog(category) ==
  CASE category = "Broken Images" -> 0
    [] category = "Checkout Navigation" -> 2
    [] OTHER -> 1

(* The reference of every issue is a number not above the counter, and the *)
(* counter is the number of take_screenshot calls made so far.             *)
ReferenceWithinCounter ==
  /\ screenshot_counter = Len(shots)
  /\ \A i \in DOMAIN issues :
       \E n \in 0 .. screenshot_counter : issues[i].screenshot = Fmt04(n)

(* A step that logs an issue: its reference is the number of               *)
(* take_screenshot calls made up to the log, and for a stage failure that  *)
(* is the number the error screenshot of the same step was given.          *)
ReferenceIsCallCount ==
  issues' # issues =>
    /\ Len(issues') = Len(issues) + 1
    /\ SubSeq(issues', 1, Len(issues)) = issues
    /\ LET logged == issues'[Len(issues')]
           calls == Len(shots) + CallsBeforeLog(logged.category)
       IN /\ calls <= Len(shots')
          /\ logged.screenshot = Fmt04(calls)
          /\ logged.category \in StageFailureCategories =>
               /\ shots'[Len(shots) + 1] = calls
               /\ logged.screenshot = Fmt04(shots'[Len(shots) + 1])

(* C31: the screenshot reference of every issue is the counter at the      *)
(* moment the issue is logged, which is the number of take_screenshot      *)
(* calls made so far in the run; it is never above the counter, and for a  *)
(* stage-failure issue it is the number of the error screenshot attempted  *)
(* right before.                                                           *)
C31_ReferenceIsCounterAtLog == []ReferenceWithinCounter /\ [][ReferenceIsCallCount]_vars

C31_Witness ==
  /\ Len(sessions) >= 2
  /\ Len(issues) >= 2
  /\ issues[Len(issues)].category = "Seat Selection Failed"
  /\ issues[Len(issues)].screenshot = Fmt04(screenshot_counter)
  /\ issues[1].screenshot # Fmt04(screenshot_counter)
  /\ screenshot_counter > 9


(* The section screenshots taken by the running capture_page_sections call *)
(* (the one before it is '01_initial_page_load').                          *)
SectionShots == Len(shots) - 1

(* While the loop runs, section_num is one more than the screenshots       *)
(* taken, the scroll position is that many steps of (window height - 150)  *)
(* from the top, and nothing has reached the handler of the session.       *)
SectionsBounded ==
  /\ SectionShots <= max_sections
  /\ pc \in {"sections", "section_loop", "check_images"}
  /\ caught = "none" /\ escaped = "none"
  /\ issues = <<>>
  /\ pc = "section_loop" =>
       /\ section_num = SectionShots + 1
       /\ section_num <= max_sections + 1
       /\ scroll_pos = SectionShots * (viewport_height - SectionOverlap)

(* A turn of the loop takes one screenshot and counts one section. *)
SectionTurnCounts ==
  pc = "section_loop" /\ pc' = "section_loop" =>
    /\ section_num' = section_num + 1
    /\ Len(shots') = Len(shots) + 1

(* C32: capture_page_sections returns, after at most 15 section            *)
(* screenshots, for every page height and window height, also when the     *)
(* window is 150 px high or less and the scroll position does not move     *)
(* forward; it raises nothing to the session.                              *)
C32_SectionsTerminate ==
  /\ []SectionsBounded
  /\ [][SectionTurnCounts]_vars
  /\ <>(pc = "check_images")

C32_Witness ==
  /\ pc = "section_loop"
  /\ viewport_height <= SectionOverlap
  /\ page_height > 0
  /\ scroll_pos <= 0
  /\ SectionShots = max_sections

=============================================================================
